---- MODULE Spec2Model ----
(***************************************************************************)
(* NYD Bot (No-You-Don't Bot): a Discord bot that deletes messages whose   *)
(* links contain a blocked partial.  The model covers the rule store and   *)
(* its slash commands, the DataManager that persists the store as a JSON   *)
(* snapshot, and the messageCreate handler with its normal and watchman    *)
(* scans.  Handlers are async functions: each action below is the code     *)
(* that runs between two awaits of one handler.                            *)
(***************************************************************************)
EXTENDS Integers, Sequences, FiniteSets, TLC

(***************************************************************************)
(* Bounds of the model.                                                    *)
(***************************************************************************)
\* messages posted while the bot runs
MaxMsgs == 2
\* slash commands handled in one behaviour
MaxCmds == 2
\* process restarts in one behaviour
MaxRestarts == 1
\* requests that fail at the messaging boundary (fetch or delete), and writes
\* of the snapshot that fail
MaxFails == 1
\* changes of the bot's permission
MaxPermChanges == 1
\* the last reading of the millisecond clock
MaxClock == 2

(***************************************************************************)
(* Program constants.                                                      *)
(***************************************************************************)
\* a window one message short
WatchmanLimitShort == 6 - 1
\* checkMultipleMessages(channel, partials, limit = 6)
WatchmanLimit == 6

(***************************************************************************)
(* The universe: guilds, channels, users, roles.                           *)
(***************************************************************************)
NoGuild == "none"
Guilds == {"g1", "g2"}
Channels == {"c1", "c2"}
DmChannel == "dm"
\* a second channel of guild g1; no command of the model addresses it
SiblingChannel == "c3"
GuildOf(c) ==
  CASE c = "c1" -> "g1" [] c = "c2" -> "g2" [] c = SiblingChannel -> "g1"
    [] OTHER -> NoGuild
Users == {"u1", "u2"}
Bot == "bot"
Authors == Users \cup {Bot}
Roles == {"r1"}
\* message.author.bot
IsBot(a) == a = Bot
\* message.member.roles.cache: the ids of the author's roles
RolesOf(a) == IF a = "u2" THEN <<"r1">> ELSE <<>>

(***************************************************************************)
(* Strings are sequences of one-character strings.                         *)
(***************************************************************************)
LowerChar(ch) ==
  CASE ch = "H" -> "h" [] ch = "T" -> "t" [] ch = "P" -> "p"
    [] ch = "A" -> "a" [] ch = "B" -> "b" [] OTHER -> ch
\* String.prototype.toLowerCase
ToLowerCase(s) == [i \in 1..Len(s) |-> LowerChar(s[i])]
\* String.prototype.includes
Includes(s, sub) ==
  \E i \in 0..(Len(s) - Len(sub)) : SubSeq(s, i + 1, i + Len(sub)) = sub
Http == <<"h", "t", "t", "p">>

\* message texts
TxtLinkA == <<"h", "t", "t", "p", "a">>
TxtLinkAB == <<"H", "T", "T", "P", "A", "b">>
TxtPlainA == <<"a">>
TxtLinkClean == <<"h", "t", "t", "p", "x">>
TxtEmpty == <<>>
Texts == {TxtLinkA, TxtLinkAB, TxtPlainA, TxtLinkClean, TxtEmpty}
\* filtered_partial option values of the commands
PartialInputs == {<<"a">>, <<"A">>, <<"b">>}

(***************************************************************************)
(* JavaScript Set and Map.  A Set is the sequence of its elements in       *)
(* insertion order, without duplicates; a Map is the sequence of its       *)
(* entries [k, v] in insertion order, with distinct keys.                  *)
(***************************************************************************)
SetHas(s, x) == \E i \in 1..Len(s) : s[i] = x
\* an add that appends without looking for the element
SetAddAlways(s, x) == Append(s, x)
SetAdd(s, x) == IF SetHas(s, x) THEN s ELSE Append(s, x)
SetDelete(s, x) == SelectSeq(s, LAMBDA y : y # x)
Members(s) == {s[i] : i \in 1..Len(s)}
RECURSIVE NewSet(_)
\* new Set(iterable): duplicates of an earlier element are dropped
NewSet(arr) ==
  IF arr = <<>> THEN <<>>
  ELSE LET front == NewSet(SubSeq(arr, 1, Len(arr) - 1))
       IN  SetAdd(front, arr[Len(arr)])
\* Array.from(set): the elements in insertion order
ArrayFrom(s) == s

MapHas(m, k) == \E i \in 1..Len(m) : m[i].k = k
MapIndex(m, k) == CHOOSE i \in 1..Len(m) : m[i].k = k
MapGet(m, k) == m[MapIndex(m, k)].v
MapSet(m, k, v) ==
  IF MapHas(m, k) THEN [m EXCEPT ![MapIndex(m, k)].v = v]
  ELSE Append(m, [k |-> k, v |-> v])
MapKeys(m) == {m[i].k : i \in 1..Len(m)}
RECURSIVE NewMap(_)
\* new Map(entries): a later entry of the same key replaces the value
NewMap(entries) ==
  IF entries = <<>> THEN <<>>
  ELSE LET e == entries[Len(entries)]
       IN  MapSet(NewMap(SubSeq(entries, 1, Len(entries) - 1)), e.k, e.v)

(***************************************************************************)
(* DataManager (data-manager.js).  The content of data/bot-data.json is    *)
(* modelled as the JSON value it holds: kind "none" (no file), "malformed" *)
(* (not parseable) or "file", with the set of top-level fields present;    *)
(* a JSON object is the sequence of its [k, v] members and a JSON array a  *)
(* sequence.                                                               *)
(***************************************************************************)
FieldNames == {"blockRules", "globalBlockRules", "allowLists", "watchmanChannels"}
EmptyData ==
  [blockRules |-> <<>>, globalBlockRules |-> <<>>, allowLists |-> <<>>,
   watchmanChannels |-> <<>>]
NoFile == [kind |-> "none", has |-> {}, json |-> EmptyData]
Malformed == [kind |-> "malformed", has |-> {}, json |-> EmptyData]
\* Object.fromEntries(entries)
ObjectFromEntries(entries) == NewMap(entries)
\* Object.entries(obj)
ObjectEntries(obj) == obj
\* Serialize without the keys whose rule set is empty
SerializeDropEmpty(data) ==
  [blockRules |-> SelectSeq(data.blockRules, LAMBDA e : e.v # <<>>),
   globalBlockRules |-> SelectSeq(data.globalBlockRules, LAMBDA e : e.v # <<>>),
   allowLists |-> data.allowLists,
   watchmanChannels |-> data.watchmanChannels]
\* the value saveData and createBackup build from the store
Serialize(data) ==
  [blockRules |->
     ObjectFromEntries([i \in 1..Len(data.blockRules) |->
        [k |-> data.blockRules[i].k, v |-> ArrayFrom(data.blockRules[i].v)]]),
   globalBlockRules |->
     ObjectFromEntries([i \in 1..Len(data.globalBlockRules) |->
        [k |-> data.globalBlockRules[i].k,
         v |-> ArrayFrom(data.globalBlockRules[i].v)]]),
   allowLists |->
     ObjectFromEntries([i \in 1..Len(data.allowLists) |->
        [k |-> data.allowLists[i].k,
         v |-> [users |-> ArrayFrom(data.allowLists[i].v.users),
                roles |-> ArrayFrom(data.allowLists[i].v.roles)]]]),
   watchmanChannels |-> ArrayFrom(data.watchmanChannels)]
\* the file saveData writes: JSON.stringify(serializableData)
SnapshotOf(data) == [kind |-> "file", has |-> FieldNames, json |-> Serialize(data)]
\* parsedData.field || default
FieldOr(file, name, default) == IF name \in file.has THEN file.json[name] ELSE default
\* the Maps and Sets loadData builds from the parsed file
Deserialize(file) ==
  LET br == ObjectEntries(FieldOr(file, "blockRules", <<>>))
      gr == ObjectEntries(FieldOr(file, "globalBlockRules", <<>>))
      al == ObjectEntries(FieldOr(file, "allowLists", <<>>))
  IN  [blockRules |-> NewMap([i \in 1..Len(br) |-> [k |-> br[i].k, v |-> NewSet(br[i].v)]]),
       globalBlockRules |->
         NewMap([i \in 1..Len(gr) |-> [k |-> gr[i].k, v |-> NewSet(gr[i].v)]]),
       allowLists |->
         NewMap([i \in 1..Len(al) |->
            [k |-> al[i].k,
             v |-> [users |-> NewSet(al[i].v.users), roles |-> NewSet(al[i].v.roles)]]]),
       watchmanChannels |-> NewSet(FieldOr(file, "watchmanChannels", <<>>))]
\* a file that parses but holds a value of the wrong type (a rule set that is
\* no array, an allowlist entry that is null): the conversion throws inside
\* the try block of loadData; json is what the well-typed members hold
IllTypedOf(data) == [kind |-> "illtyped", has |-> FieldNames, json |-> Serialize(data)]
\* a loadData that discards the whole file when a top-level field is absent
LoadDataStrict(file) ==
  IF file.kind = "file" /\ file.has = FieldNames THEN Deserialize(file) ELSE EmptyData
\* a loadData that converts the well-typed members of an ill-typed file
LoadDataLenient(file) ==
  IF file.kind \in {"file", "illtyped"} THEN Deserialize(file) ELSE EmptyData
\* DataManager.loadData: readFile throws ENOENT or JSON.parse throws -> empty data
LoadData(file) == IF file.kind = "file" THEN Deserialize(file) ELSE EmptyData

\* the sum of the sizes of the Sets of a Map: Array.from(values).reduce(...)
RECURSIVE SumSizes(_)
SumSizes(m) == IF m = <<>> THEN 0 ELSE Len(m[1].v) + SumSizes(Tail(m))
\* DataManager.getDataStats
GetDataStats(data) ==
  [channelsWithRules |-> Len(data.blockRules),
   serversWithGlobalRules |-> Len(data.globalBlockRules),
   serversWithAllowlists |-> Len(data.allowLists),
   watchmanChannels |-> Len(data.watchmanChannels),
   totalBlockRules |-> SumSizes(data.blockRules),
   totalGlobalRules |-> SumSizes(data.globalBlockRules)]

(***************************************************************************)
(* State.                                                                  *)
(***************************************************************************)
VARIABLES
  \* the four module-level collections of the bot
  blockRules, globalBlockRules, allowLists, watchmanChannels,
  \* "loading" while the ready handler awaits loadData, then "running"
  phase,
  \* data/bot-data.json
  disk,
  \* the autoSave and createBackup calls in progress, in the order they were started
  saves,
  \* the messages of the platform, indexed by id in posting order
  msgs,
  \* the bot's ManageMessages permission per guild
  perm,
  \* the messageCreate handlers suspended at an await
  handlers,
  \* history: the requests made at the messaging boundary and their results
  obs,
  \* history: counters of commands and restarts, the store before the last restart
  hist,
  \* data/backup-<timestamp>.json: the backup files by the timestamp of their
  \* name, in the order they were created
  backups,
  \* new Date(): the clock in milliseconds, which is the resolution of toISOString()
  clock

storeVars == <<blockRules, globalBlockRules, allowLists, watchmanChannels>>
persistVars == <<phase, disk, saves, hist, backups, clock>>
msgVars == <<msgs, perm, handlers, obs>>
vars == <<storeVars, persistVars, msgVars, backups, clock>>

\* the object autoSave and the backup and stats commands pass to the DataManager
Store ==
  [blockRules |-> blockRules, globalBlockRules |-> globalBlockRules,
   allowLists |-> allowLists, watchmanChannels |-> watchmanChannels]

(***************************************************************************)
(* autoSave and DataManager.saveData.  saveData awaits ensureDataDir,      *)
(* then builds the snapshot from the store as it is at that moment and     *)
(* awaits fs.writeFile.  saveData rethrows a failure; autoSave catches and *)
(* logs it, so the command handler continues with its confirmation.        *)
(***************************************************************************)
\* autoSave() is called: the handler is suspended in ensureDataDir
StartSave(cmd) ==
  Append(saves, [stage |-> "ensureDir", snap |-> NoFile, cmd |-> cmd, at |-> 0])
RemoveAt(seq, i) == SubSeq(seq, 1, i - 1) \o SubSeq(seq, i + 1, Len(seq))
Count(cmd, reply) ==
  [hist EXCEPT !.cmds = @ + 1, !.reply = reply, !.early = @ \/ phase = "loading"]

\* ensureDataDir has resolved: serializableData is built, fs.writeFile is called;
\* createBackup reads the clock for the name of its file first
SaveSerialize(i) ==
  /\ saves[i].stage = "ensureDir"
  /\ saves' = [saves EXCEPT ![i] =
                 [@ EXCEPT !.stage = "writing", !.snap = SnapshotOf(Store),
                           !.at = IF saves[i].cmd = "backup" THEN clock ELSE @]]
  /\ UNCHANGED <<storeVars, phase, disk, hist, msgVars, backups, clock>>

\* fs.writeFile has resolved: the file holds the snapshot; the command replies
WriteDone(i) ==
  /\ saves[i].stage = "writing"
  /\ saves[i].cmd # "backup"
  /\ disk' = saves[i].snap
  /\ saves' = RemoveAt(saves, i)
  /\ hist' = [hist EXCEPT !.reply = "ok", !.lastWrite = "ok"]
  /\ UNCHANGED <<storeVars, phase, msgVars, backups, clock>>

\* fs.writeFile has rejected: the file is as before or truncated; saveData
\* rethrows, autoSave swallows the error, the command replies all the same
WriteFail(i) ==
  /\ saves[i].stage = "writing"
  /\ saves[i].cmd # "backup"
  /\ hist.fails < MaxFails
  /\ \E d \in {disk, Malformed} : disk' = d
  /\ saves' = RemoveAt(saves, i)
  /\ hist' = [hist EXCEPT !.reply = "ok", !.lastWrite = "failed", !.fails = @ + 1]
  /\ UNCHANGED <<storeVars, phase, msgVars, backups, clock>>

(***************************************************************************)
(* interactionCreate: the /nyd subcommands.  Each action is the handler    *)
(* from its start to its first await.                                      *)
(***************************************************************************)
CanCommand == hist.cmds < MaxCmds
\* Map.get(k), or a new Set when the handler has just created the entry
RulesOf(m, k) == IF MapHas(m, k) THEN MapGet(m, k) ELSE <<>>
NewAllow == [users |-> <<>>, roles |-> <<>>]
\* ensureAllowlist(): creates the guild's entry when it is absent
EnsureAllowlist(g) == IF MapHas(allowLists, g) THEN allowLists ELSE MapSet(allowLists, g, NewAllow)

\* the command is not used in a guild, or the member is no administrator
CmdRejected ==
  /\ CanCommand
  /\ hist' = Count("rejected", "rejected")
  /\ UNCHANGED <<storeVars, phase, disk, saves, msgVars, backups, clock>>

\* the handler of a command has run to its first await: the history records
\* the command, its options, its outcome, whether it called autoSave, and the
\* store before and after
Logged(cmd, key, arg, reply, save, post) ==
  [Count(cmd, reply) EXCEPT
     !.log = Append(@, [cmd |-> cmd, key |-> key, arg |-> arg, reply |-> reply,
                        save |-> save, pre |-> Store, post |-> post])]

\* CmdBlock storing the partial as it was typed, without toLowerCase()
CmdBlockNoLower(c, input) ==
  LET rules == MapSet(blockRules, c, SetAdd(RulesOf(blockRules, c), input))
  IN  /\ CanCommand
      /\ blockRules' = rules
      /\ saves' = StartSave("block")
      /\ hist' = Logged("block", c, input, "pending", TRUE, [Store EXCEPT !.blockRules = rules])
      /\ UNCHANGED <<globalBlockRules, allowLists, watchmanChannels, phase, disk, msgVars, backups, clock>>

\* block: lines 547-557, up to the call of autoSave
CmdBlock(c, input) ==
  LET partial == ToLowerCase(input)
      rules == MapSet(blockRules, c, SetAdd(RulesOf(blockRules, c), partial))
  IN  /\ CanCommand
      /\ blockRules' = rules
      /\ saves' = StartSave("block")
      /\ hist' = Logged("block", c, input, "pending", TRUE, [Store EXCEPT !.blockRules = rules])
      /\ UNCHANGED <<globalBlockRules, allowLists, watchmanChannels, phase, disk, msgVars, backups, clock>>

\* CmdUnblock without the not-found test of line 570
CmdUnblockNoCheck(c, input) ==
  LET partial == ToLowerCase(input)
      rules == MapSet(blockRules, c, SetDelete(RulesOf(blockRules, c), partial))
  IN  /\ CanCommand
      /\ blockRules' = rules
      /\ saves' = StartSave("unblock")
      /\ hist' = Logged("unblock", c, input, "pending", TRUE,
                        [Store EXCEPT !.blockRules = rules])
      /\ UNCHANGED <<globalBlockRules, allowLists, watchmanChannels, phase, disk, msgVars, backups, clock>>

\* CmdUnblock with the option compared as typed, without toLowerCase()
CmdUnblockCaseSensitive(c, input) ==
  LET partial == input
  IN  /\ CanCommand
      /\ IF ~MapHas(blockRules, c) \/ ~SetHas(MapGet(blockRules, c), partial)
         THEN /\ hist' = Logged("unblock", c, input, "notfound", FALSE, Store)
              /\ UNCHANGED <<blockRules, saves>>
         ELSE LET rules == MapSet(blockRules, c, SetDelete(MapGet(blockRules, c), partial))
              IN  /\ blockRules' = rules
                  /\ saves' = StartSave("unblock")
                  /\ hist' = Logged("unblock", c, input, "pending", TRUE,
                                    [Store EXCEPT !.blockRules = rules])
      /\ UNCHANGED <<globalBlockRules, allowLists, watchmanChannels, phase, disk, msgVars, backups, clock>>

\* CmdUnblock deleting the channel's entry when its last partial is removed
CmdUnblockPrune(c, input) ==
  LET partial == ToLowerCase(input)
  IN  /\ CanCommand
      /\ IF ~MapHas(blockRules, c) \/ ~SetHas(MapGet(blockRules, c), partial)
         THEN /\ hist' = Logged("unblock", c, input, "notfound", FALSE, Store)
              /\ UNCHANGED <<blockRules, saves>>
         ELSE LET left == SetDelete(MapGet(blockRules, c), partial)
                  rules == IF left = <<>> THEN SelectSeq(blockRules, LAMBDA e : e.k # c)
                           ELSE MapSet(blockRules, c, left)
              IN  /\ blockRules' = rules
                  /\ saves' = StartSave("unblock")
                  /\ hist' = Logged("unblock", c, input, "pending", TRUE,
                                    [Store EXCEPT !.blockRules = rules])
      /\ UNCHANGED <<globalBlockRules, allowLists, watchmanChannels, phase, disk, msgVars, backups, clock>>

\* unblock: lines 566-577, up to the call of autoSave
CmdUnblock(c, input) ==
  LET partial == ToLowerCase(input)
  IN  /\ CanCommand
      /\ IF ~MapHas(blockRules, c) \/ ~SetHas(MapGet(blockRules, c), partial)
         THEN /\ hist' = Logged("unblock", c, input, "notfound", FALSE, Store)
              /\ UNCHANGED <<blockRules, saves>>
         ELSE LET rules == MapSet(blockRules, c, SetDelete(MapGet(blockRules, c), partial))
              IN  /\ blockRules' = rules
                  /\ saves' = StartSave("unblock")
                  /\ hist' = Logged("unblock", c, input, "pending", TRUE,
                                    [Store EXCEPT !.blockRules = rules])
      /\ UNCHANGED <<globalBlockRules, allowLists, watchmanChannels, phase, disk, msgVars, backups, clock>>

CmdBlockGlobal(g, input) ==
  LET partial == ToLowerCase(input)
      rules == MapSet(globalBlockRules, g, SetAdd(RulesOf(globalBlockRules, g), partial))
  IN  /\ CanCommand
      /\ globalBlockRules' = rules
      /\ saves' = StartSave("block-global")
      /\ hist' = Logged("block-global", g, input, "pending", TRUE,
                        [Store EXCEPT !.globalBlockRules = rules])
      /\ UNCHANGED <<blockRules, allowLists, watchmanChannels, phase, disk, msgVars, backups, clock>>

CmdUnblockGlobal(g, input) ==
  LET partial == ToLowerCase(input)
  IN  /\ CanCommand
      /\ IF ~MapHas(globalBlockRules, g) \/ ~SetHas(MapGet(globalBlockRules, g), partial)
         THEN /\ hist' = Logged("unblock-global", g, input, "notfound", FALSE, Store)
              /\ UNCHANGED <<globalBlockRules, saves>>
         ELSE LET rules == MapSet(globalBlockRules, g,
                                  SetDelete(MapGet(globalBlockRules, g), partial))
              IN  /\ globalBlockRules' = rules
                  /\ saves' = StartSave("unblock-global")
                  /\ hist' = Logged("unblock-global", g, input, "pending", TRUE,
                                    [Store EXCEPT !.globalBlockRules = rules])
      /\ UNCHANGED <<blockRules, allowLists, watchmanChannels, phase, disk, msgVars, backups, clock>>

CmdAllowUser(g, u) ==
  LET al == EnsureAllowlist(g)
      allow == MapGet(al, g)
      lists == MapSet(al, g, [allow EXCEPT !.users = SetAdd(@, u)])
  IN  /\ CanCommand
      /\ allowLists' = lists
      /\ saves' = StartSave("allow-user")
      /\ hist' = Logged("allow-user", g, u, "pending", TRUE, [Store EXCEPT !.allowLists = lists])
      /\ UNCHANGED <<blockRules, globalBlockRules, watchmanChannels, phase, disk, msgVars, backups, clock>>

CmdRemoveAllow(g, u) ==
  LET al == EnsureAllowlist(g)
      allow == MapGet(al, g)
  IN  /\ CanCommand
      /\ IF ~SetHas(allow.users, u)
         THEN /\ allowLists' = al
              /\ hist' = Logged("remove-allow", g, u, "notfound", FALSE,
                                [Store EXCEPT !.allowLists = al])
              /\ UNCHANGED saves
         ELSE LET lists == MapSet(al, g, [allow EXCEPT !.users = SetDelete(@, u)])
              IN  /\ allowLists' = lists
                  /\ saves' = StartSave("remove-allow")
                  /\ hist' = Logged("remove-allow", g, u, "pending", TRUE,
                                    [Store EXCEPT !.allowLists = lists])
      /\ UNCHANGED <<blockRules, globalBlockRules, watchmanChannels, phase, disk, msgVars, backups, clock>>

CmdAllowRole(g, r) ==
  LET al == EnsureAllowlist(g)
      allow == MapGet(al, g)
      lists == MapSet(al, g, [allow EXCEPT !.roles = SetAdd(@, r)])
  IN  /\ CanCommand
      /\ allowLists' = lists
      /\ saves' = StartSave("allow-role")
      /\ hist' = Logged("allow-role", g, r, "pending", TRUE, [Store EXCEPT !.allowLists = lists])
      /\ UNCHANGED <<blockRules, globalBlockRules, watchmanChannels, phase, disk, msgVars, backups, clock>>

CmdRemoveAllowRole(g, r) ==
  LET al == EnsureAllowlist(g)
      allow == MapGet(al, g)
  IN  /\ CanCommand
      /\ IF ~SetHas(allow.roles, r)
         THEN /\ allowLists' = al
              /\ hist' = Logged("remove-allow-role", g, r, "notfound", FALSE,
                                [Store EXCEPT !.allowLists = al])
              /\ UNCHANGED saves
         ELSE LET lists == MapSet(al, g, [allow EXCEPT !.roles = SetDelete(@, r)])
              IN  /\ allowLists' = lists
                  /\ saves' = StartSave("remove-allow-role")
                  /\ hist' = Logged("remove-allow-role", g, r, "pending", TRUE,
                                    [Store EXCEPT !.allowLists = lists])
      /\ UNCHANGED <<blockRules, globalBlockRules, watchmanChannels, phase, disk, msgVars, backups, clock>>

\* list-allow calls ensureAllowlist too, and does not save
CmdListAllow(g) ==
  LET al == EnsureAllowlist(g)
  IN  /\ CanCommand
      /\ allowLists' = al
      /\ hist' = Logged("list-allow", g, g, "list", FALSE, [Store EXCEPT !.allowLists = al])
      /\ UNCHANGED <<blockRules, globalBlockRules, watchmanChannels, phase, disk, saves, msgVars, backups, clock>>

\* CmdWatchman without the tests of lines 672 and 683
CmdWatchmanNoCheck(c, isEnabled) ==
  LET set == IF isEnabled THEN SetAdd(watchmanChannels, c) ELSE SetDelete(watchmanChannels, c)
  IN  /\ CanCommand
      /\ watchmanChannels' = set
      /\ saves' = StartSave("watchman")
      /\ hist' = Logged("watchman", c, isEnabled, "pending", TRUE,
                        [Store EXCEPT !.watchmanChannels = set])
      /\ UNCHANGED <<blockRules, globalBlockRules, allowLists, phase, disk, msgVars, backups, clock>>

CmdWatchman(c, isEnabled) ==
  /\ CanCommand
  /\ IF isEnabled = SetHas(watchmanChannels, c)
     THEN /\ hist' = Logged("watchman", c, isEnabled, "already", FALSE, Store)
          /\ UNCHANGED <<watchmanChannels, saves>>
     ELSE LET set == IF isEnabled THEN SetAdd(watchmanChannels, c)
                     ELSE SetDelete(watchmanChannels, c)
          IN  /\ watchmanChannels' = set
              /\ saves' = StartSave("watchman")
              /\ hist' = Logged("watchman", c, isEnabled, "pending", TRUE,
                                [Store EXCEPT !.watchmanChannels = set])
  /\ UNCHANGED <<blockRules, globalBlockRules, allowLists, phase, disk, msgVars, backups, clock>>

\* list: the partials of the channel, "None" when the channel has no entry
CmdList(c) ==
  /\ CanCommand
  /\ hist' = IF MapHas(blockRules, c)
             THEN Logged("list", c, ArrayFrom(MapGet(blockRules, c)), "list", FALSE, Store)
             ELSE Logged("list", c, <<>>, "none", FALSE, Store)
  /\ UNCHANGED <<storeVars, phase, disk, saves, msgVars, backups, clock>>

\* list-global: the partials of the guild, "None" when the guild has no entry
CmdListGlobal(g) ==
  /\ CanCommand
  /\ hist' = IF MapHas(globalBlockRules, g)
             THEN Logged("list-global", g, ArrayFrom(MapGet(globalBlockRules, g)), "list",
                         FALSE, Store)
             ELSE Logged("list-global", g, <<>>, "none", FALSE, Store)
  /\ UNCHANGED <<storeVars, phase, disk, saves, msgVars, backups, clock>>

\* stats: the reply shows getDataStats of the four collections
CmdStats(g) ==
  /\ CanCommand
  /\ hist' = Logged("stats", g, GetDataStats(Store), "stats", FALSE, Store)
  /\ UNCHANGED <<storeVars, phase, disk, saves, msgVars, backups, clock>>

\* backup: createBackup is called and suspended in ensureDataDir; SaveSerialize
\* is its next step as well
CmdBackup(g) ==
  /\ CanCommand
  /\ saves' = StartSave("backup")
  /\ hist' = Logged("backup", g, g, "pending", FALSE, Store)
  /\ UNCHANGED <<storeVars, phase, disk, msgVars, backups, clock>>

\* BackupDone writing the canonical data file instead of a backup file
BackupDoneOverwrites(i) ==
  /\ saves[i].stage = "writing"
  /\ saves[i].cmd = "backup"
  /\ disk' = saves[i].snap
  /\ saves' = RemoveAt(saves, i)
  /\ hist' = [hist EXCEPT !.reply = "backup-ok"]
  /\ UNCHANGED <<storeVars, phase, msgVars, backups, clock>>

\* fs.writeFile(backupFile) has resolved: the backup file exists; the command
\* replies that the backup was created
BackupDone(i) ==
  /\ saves[i].stage = "writing"
  /\ saves[i].cmd = "backup"
  /\ backups' = MapSet(backups, saves[i].at, saves[i].snap)
  /\ saves' = RemoveAt(saves, i)
  /\ hist' = [hist EXCEPT !.reply = "backup-ok"]
  /\ UNCHANGED <<storeVars, phase, disk, msgVars, clock>>

\* fs.writeFile(backupFile) has rejected: no backup file, or a truncated one;
\* createBackup logs and swallows the error, the command replies all the same
BackupFail(i) ==
  /\ saves[i].stage = "writing"
  /\ saves[i].cmd = "backup"
  /\ hist.fails < MaxFails
  /\ \E b \in {backups, MapSet(backups, saves[i].at, Malformed)} : backups' = b
  /\ saves' = RemoveAt(saves, i)
  /\ hist' = [hist EXCEPT !.reply = "backup-ok", !.fails = @ + 1]
  /\ UNCHANGED <<storeVars, phase, disk, msgVars, clock>>

\* a millisecond passes
Tick ==
  /\ clock < MaxClock
  /\ clock' = clock + 1
  /\ UNCHANGED <<storeVars, phase, disk, saves, hist, backups, msgVars>>

(***************************************************************************)
(* Process start.  The module creates the four collections empty; the      *)
(* ready handler awaits loadData and then assigns the loaded collections.  *)
(* Events are dispatched while it waits.                                   *)
(***************************************************************************)
\* the ready handler resumes after loadData
ReadyLoaded ==
  /\ phase = "loading"
  /\ LET savedData == LoadData(disk)
     IN  /\ blockRules' = savedData.blockRules
         /\ globalBlockRules' = savedData.globalBlockRules
         /\ allowLists' = savedData.allowLists
         /\ watchmanChannels' = savedData.watchmanChannels
         /\ hist' = [hist EXCEPT !.loaded = savedData]
  /\ phase' = "running"
  /\ UNCHANGED <<disk, saves, msgVars, backups, clock>>

\* the process is stopped while no handler is in progress, and started again
Restart ==
  /\ phase = "running"
  /\ saves = <<>>
  /\ handlers = <<>>
  /\ hist.restarts < MaxRestarts
  /\ blockRules' = <<>>
  /\ globalBlockRules' = <<>>
  /\ allowLists' = <<>>
  /\ watchmanChannels' = <<>>
  /\ phase' = "loading"
  /\ hist' = [hist EXCEPT !.restarts = @ + 1, !.pre = Store, !.reply = "none",
                          !.lastWrite = "none"]
  /\ UNCHANGED <<disk, saves, msgVars, backups, clock>>

(***************************************************************************)
(* The messaging platform: channel.messages.fetch and the match checks of  *)
(* checkAndDeleteMessage and checkMultipleMessages.                        *)
(***************************************************************************)
MsgIds == 1..Len(msgs)
\* the ids of the messages of channel c that exist, newest first
RECURSIVE NewestFirst(_, _)
NewestFirst(c, id) ==
  IF id = 0 THEN <<>>
  ELSE IF msgs[id].channel = c /\ ~msgs[id].deleted
       THEN <<id>> \o NewestFirst(c, id - 1)
       ELSE NewestFirst(c, id - 1)
FirstN(seq, n) == SubSeq(seq, 1, IF Len(seq) < n THEN Len(seq) ELSE n)
\* channel.messages.fetch({ limit }): the newest limit messages, as they are now
Fetch(c, limit) ==
  LET ids == FirstN(NewestFirst(c, Len(msgs)), limit)
  IN  [i \in 1..Len(ids) |->
         [id |-> ids[i], author |-> msgs[ids[i]].author, content |-> msgs[ids[i]].content]]

\* message.guild.members.me.permissions.has("ManageMessages")
HasManageMessages(g) == perm[g]

\* the index of the first partial, from index from on, that the content includes; 0 if none
RECURSIVE FirstMatch(_, _, _)
FirstMatch(content, partials, from) ==
  IF from > Len(partials) THEN 0
  ELSE IF Includes(content, partials[from]) THEN from
       ELSE FirstMatch(content, partials, from + 1)

\* checkAndDeleteMessage up to its await: does it call message.delete()?
CheckAndDeleteRequests(text, partials, g) ==
  /\ partials # <<>>
  /\ Includes(ToLowerCase(text), Http)
  /\ HasManageMessages(g)
  /\ FirstMatch(ToLowerCase(text), partials, 1) # 0

\* PassesWindowChecks without the "http" test
PassesWindowChecksNoHttp(m, g) ==
  /\ ~IsBot(m.author)
  /\ m.content # <<>>
  /\ HasManageMessages(g)

\* PassesWindowChecks without the test of message.author.bot
PassesWindowChecksNoBot(m, g) ==
  /\ m.content # <<>>
  /\ Includes(ToLowerCase(m.content), Http)
  /\ HasManageMessages(g)

\* checkMultipleMessages: the tests before the loop over the partials
PassesWindowChecks(m, g) ==
  /\ ~IsBot(m.author)
  /\ m.content # <<>>
  /\ Includes(ToLowerCase(m.content), Http)
  /\ HasManageMessages(g)

\* checkMultipleMessages between two awaits: the loops continue at message mi
\* and partial pi (inside the loop over the partials when inner is TRUE) and
\* run to the next message.delete(); <<mi, pi>> of that call, <<0, 0>> if none
RECURSIVE ScanFrom(_, _, _, _, _, _)
ScanFrom(window, partials, g, mi, pi, inner) ==
  IF mi > Len(window) THEN <<0, 0>>
  ELSE LET hit == IF inner \/ PassesWindowChecks(window[mi], g)
                  THEN FirstMatch(ToLowerCase(window[mi].content), partials, pi)
                  ELSE 0
       IN  IF hit # 0 THEN <<mi, hit>>
           ELSE ScanFrom(window, partials, g, mi + 1, 1, FALSE)

(***************************************************************************)
(* messageCreate.  A suspended handler is a record: the event's message    *)
(* id ev and content, the mode, the rule set under scan (scan, partials),  *)
(* the await it is suspended at (stage), and in watchman mode the fetched  *)
(* window and the position <<mi, pi>> of the delete in progress.           *)
(***************************************************************************)
Handler(ev, mode, scan, stage, content, partials, window, mi, pi) ==
  [ev |-> ev, mode |-> mode, scan |-> scan, stage |-> stage, content |-> content,
   partials |-> partials, window |-> window, mi |-> mi, pi |-> pi]
\* the message a handler suspended in message.delete() is deleting
Target(h) == IF h.mode = "normal" THEN h.ev ELSE h.window[h.mi].id
\* what a run of a handler between two awaits did: the rule sets it evaluated,
\* the fetches and deletes it requested, and the handler as suspended (h is
\* empty when the handler has returned)
Step(evals, fetches, deletes, h) ==
  [evals |-> evals, fetches |-> fetches, deletes |-> deletes, h |-> h]
Returned == Step({}, {}, {}, <<>>)

\* normal mode, the global check: lines 843-846
NormalGlobal(ev, g, content) ==
  IF ~MapHas(globalBlockRules, g) THEN Returned
  ELSE LET partials == MapGet(globalBlockRules, g)
       IN  IF CheckAndDeleteRequests(content, partials, g)
           THEN Step({"global"}, {}, {[msg |-> ev, scan |-> "global", seen |-> content]},
                     <<Handler(ev, "normal", "global", "delete", content, partials, <<>>, 0, 0)>>)
           ELSE Step({"global"}, {}, {}, <<>>)

\* NormalChannel with the channel rules looked up without the channel id: the
\* first rule set of blockRules is applied to every channel
NormalChannelAnyKey(ev, c, g, content) ==
  IF blockRules = <<>> THEN NormalGlobal(ev, g, content)
  ELSE LET partials == blockRules[1].v
       IN  IF CheckAndDeleteRequests(content, partials, g)
           THEN Step({"channel"}, {}, {[msg |-> ev, scan |-> "channel", seen |-> content]},
                     <<Handler(ev, "normal", "channel", "delete", content, partials, <<>>, 0, 0)>>)
           ELSE LET rest == NormalGlobal(ev, g, content)
                IN  [rest EXCEPT !.evals = @ \cup {"channel"}]

\* normal mode from the channel check on: lines 836-846
NormalChannel(ev, c, g, content) ==
  IF ~MapHas(blockRules, c) THEN NormalGlobal(ev, g, content)
  ELSE LET partials == MapGet(blockRules, c)
       IN  IF CheckAndDeleteRequests(content, partials, g)
           THEN Step({"channel"}, {}, {[msg |-> ev, scan |-> "channel", seen |-> content]},
                     <<Handler(ev, "normal", "channel", "delete", content, partials, <<>>, 0, 0)>>)
           ELSE LET rest == NormalGlobal(ev, g, content)
                IN  [rest EXCEPT !.evals = @ \cup {"channel"}]

\* watchman mode, the global scan up to its fetch: lines 831-834 and 760-765
WatchmanGlobal(ev, g, content) ==
  IF ~MapHas(globalBlockRules, g) THEN Returned
  ELSE LET partials == MapGet(globalBlockRules, g)
       IN  IF partials = <<>> THEN Step({"global"}, {}, {}, <<>>)
           ELSE Step({"global"}, {"global"}, {},
                     <<Handler(ev, "watchman", "global", "fetch", content, partials, <<>>, 0, 0)>>)

\* WatchmanChannel examining the arriving message alone, as in normal mode
WatchmanChannelNewestOnly(ev, c, g, content) == NormalChannel(ev, c, g, content)

\* watchman mode from the channel scan on, up to its fetch: lines 824-834
WatchmanChannel(ev, c, g, content) ==
  IF ~MapHas(blockRules, c) THEN WatchmanGlobal(ev, g, content)
  ELSE LET partials == MapGet(blockRules, c)
       IN  IF partials = <<>>
           THEN LET rest == WatchmanGlobal(ev, g, content)
                IN  [rest EXCEPT !.evals = @ \cup {"channel"}]
           ELSE Step({"channel"}, {"channel"}, {},
                     <<Handler(ev, "watchman", "channel", "fetch", content, partials, <<>>, 0, 0)>>)

\* Allowlisted without the test of the author's roles
AllowlistedUsersOnly(g, author) ==
  /\ MapHas(allowLists, g)
  /\ SetHas(MapGet(allowLists, g).users, author)

\* the allowlist check: lines 815-821
Allowlisted(g, author) ==
  /\ MapHas(allowLists, g)
  /\ LET allow == MapGet(allowLists, g)
         roles == RolesOf(author)
     IN  \/ SetHas(allow.users, author)
         \/ \E i \in 1..Len(roles) : SetHas(allow.roles, roles[i])

\* MessageCreate without the test of message.author.bot
MessageCreateNoBotCheck(ev, author, c, content) ==
  LET g == GuildOf(c)
  IN  IF content = <<>> THEN Returned
      ELSE IF g = NoGuild THEN Returned
      ELSE IF Allowlisted(g, author) THEN Returned
      ELSE IF SetHas(watchmanChannels, c) THEN WatchmanChannel(ev, c, g, content)
      ELSE NormalChannel(ev, c, g, content)

\* the handler from its start to its first await: lines 803-847
MessageCreate(ev, author, c, content) ==
  LET g == GuildOf(c)
  IN  IF IsBot(author) THEN Returned
      ELSE IF content = <<>> THEN Returned
      ELSE IF g = NoGuild THEN Returned
      ELSE IF Allowlisted(g, author) THEN Returned
      ELSE IF SetHas(watchmanChannels, c) THEN WatchmanChannel(ev, c, g, content)
      ELSE NormalChannel(ev, c, g, content)

\* checkMultipleMessages has returned false: lines 828-834
AfterScan(h) ==
  IF h.scan = "channel"
  THEN WatchmanGlobal(h.ev, GuildOf(msgs[h.ev].channel), h.content)
  ELSE Returned

\* checkMultipleMessages from position <<mi, pi>> on, to its next await
WindowScan(h, window, mi, pi, inner) ==
  LET g == GuildOf(msgs[h.ev].channel)
      hit == ScanFrom(window, h.partials, g, mi, pi, inner)
  IN  IF hit = <<0, 0>> THEN AfterScan(h)
      ELSE Step({}, {},
                {[msg |-> window[hit[1]].id, scan |-> h.scan, seen |-> window[hit[1]].content]},
                <<Handler(h.ev, "watchman", h.scan, "delete", h.content, h.partials,
                          window, hit[1], hit[2])>>)

\* the history of the messaging boundary after a run of the handler of ev
Observe(ev, step) ==
  LET n == Cardinality({r \in obs.reqs : r.ev = ev})
  IN  [obs EXCEPT
         !.evals = @ \cup {[ev |-> ev, scan |-> s] : s \in step.evals},
         !.fetchReqs = @ \cup {[ev |-> ev, scan |-> s] : s \in step.fetches},
         !.reqs = @ \cup {[ev |-> ev, msg |-> d.msg, scan |-> d.scan, n |-> n + 1,
                           seen |-> d.seen,
                           perm |-> HasManageMessages(GuildOf(msgs[d.msg].channel))]
                          : d \in step.deletes}]

\* the delete request a suspended handler is waiting for: the n-th of its event
Outcome(h) ==
  [ev |-> h.ev, msg |-> Target(h), scan |-> h.scan,
   n |-> Cardinality({r \in obs.reqs : r.ev = h.ev})]

\* Post with the allowlist check creating the guild's entry, as ensureAllowlist does
PostEnsuresAllowlist(author, c, content) ==
  LET ev == Len(msgs) + 1
      step == MessageCreate(ev, author, c, content)
      all == Append(msgs, [author |-> author, channel |-> c, content |-> content,
                           deleted |-> FALSE])
      n == Cardinality({r \in obs.reqs : r.ev = ev})
  IN  /\ obs.posted < MaxMsgs
      /\ msgs' = all
      /\ handlers' = handlers \o step.h
      /\ obs' = [obs EXCEPT
           !.posted = @ + 1,
           !.evals = @ \cup {[ev |-> ev, scan |-> s] : s \in step.evals},
           !.fetchReqs = @ \cup {[ev |-> ev, scan |-> s] : s \in step.fetches},
           !.reqs = @ \cup {[ev |-> ev, msg |-> d.msg, scan |-> d.scan, n |-> n + 1,
                             seen |-> d.seen, perm |-> HasManageMessages(GuildOf(c))]
                            : d \in step.deletes}]
      /\ allowLists' = IF GuildOf(c) = NoGuild THEN allowLists ELSE EnsureAllowlist(GuildOf(c))
      /\ UNCHANGED <<blockRules, globalBlockRules, watchmanChannels, persistVars, perm>>

\* a message is posted and its messageCreate event is dispatched
Post(author, c, content) ==
  LET ev == Len(msgs) + 1
      step == MessageCreate(ev, author, c, content)
      all == Append(msgs, [author |-> author, channel |-> c, content |-> content,
                           deleted |-> FALSE])
      n == Cardinality({r \in obs.reqs : r.ev = ev})
  IN  /\ obs.posted < MaxMsgs
      /\ msgs' = all
      /\ handlers' = handlers \o step.h
      /\ obs' = [obs EXCEPT
           !.posted = @ + 1,
           !.evals = @ \cup {[ev |-> ev, scan |-> s] : s \in step.evals},
           !.fetchReqs = @ \cup {[ev |-> ev, scan |-> s] : s \in step.fetches},
           !.reqs = @ \cup {[ev |-> ev, msg |-> d.msg, scan |-> d.scan, n |-> n + 1,
                             seen |-> d.seen, perm |-> HasManageMessages(GuildOf(c))]
                            : d \in step.deletes}]
      /\ UNCHANGED <<storeVars, persistVars, perm>>

\* channel.messages.fetch resolves: the loop runs to its first message.delete()
FetchReturn(i) ==
  LET h == handlers[i]
      c == msgs[h.ev].channel
      window == Fetch(c, WatchmanLimit)
      step == WindowScan(h, window, 1, 1, FALSE)
      seen == [obs EXCEPT !.fetched = @ \cup
                 {[ev |-> h.ev, scan |-> h.scan,
                   ids |-> [k \in 1..Len(window) |-> window[k].id],
                   live |-> NewestFirst(c, Len(msgs)),
                   perm |-> HasManageMessages(GuildOf(c))]}]
  IN  /\ h.stage = "fetch"
      /\ handlers' = RemoveAt(handlers, i) \o step.h
      /\ obs' = [Observe(h.ev, step) EXCEPT !.fetched = seen.fetched]
      /\ UNCHANGED <<storeVars, persistVars, msgs, perm>>

\* channel.messages.fetch rejects: the catch of line 795
FetchFail(i) ==
  LET h == handlers[i]
      step == AfterScan(h)
  IN  /\ h.stage = "fetch"
      /\ obs.fails < MaxFails
      /\ handlers' = RemoveAt(handlers, i) \o step.h
      /\ obs' = [Observe(h.ev, step) EXCEPT !.fails = @ + 1]
      /\ UNCHANGED <<storeVars, persistVars, msgs, perm>>

\* DeleteOk without the return after a successful delete: the handler goes on
\* as after a failed one
DeleteOkNoReturn(i) ==
  LET h == handlers[i]
      step == IF h.mode = "normal"
              THEN IF h.scan = "channel"
                   THEN NormalGlobal(h.ev, GuildOf(msgs[h.ev].channel), h.content)
                   ELSE Returned
              ELSE WindowScan(h, h.window, h.mi, h.pi + 1, TRUE)
  IN  /\ h.stage = "delete"
      /\ ~msgs[Target(h)].deleted
      /\ msgs' = [msgs EXCEPT ![Target(h)].deleted = TRUE]
      /\ handlers' = RemoveAt(handlers, i) \o step.h
      /\ obs' = [Observe(h.ev, step) EXCEPT !.deleted = @ \cup {Outcome(h)}]
      /\ UNCHANGED <<storeVars, persistVars, perm>>

\* message.delete() resolves: the message is gone, the check returns true
DeleteOk(i) ==
  LET h == handlers[i]
  IN  /\ h.stage = "delete"
      /\ ~msgs[Target(h)].deleted
      /\ msgs' = [msgs EXCEPT ![Target(h)].deleted = TRUE]
      /\ handlers' = RemoveAt(handlers, i)
      /\ obs' = [obs EXCEPT !.deleted = @ \cup {Outcome(h)}]
      /\ UNCHANGED <<storeVars, persistVars, perm>>

\* message.delete() rejects: the catch of line 750 or of line 789
DeleteFail(i) ==
  LET h == handlers[i]
      step == IF h.mode = "normal"
              THEN IF h.scan = "channel"
                   THEN NormalGlobal(h.ev, GuildOf(msgs[h.ev].channel), h.content)
                   ELSE Returned
              ELSE WindowScan(h, h.window, h.mi, h.pi + 1, TRUE)
  IN  /\ h.stage = "delete"
      /\ obs.fails < MaxFails
      /\ handlers' = RemoveAt(handlers, i) \o step.h
      /\ obs' = [Observe(h.ev, step) EXCEPT
                   !.failed = @ \cup {Outcome(h)}, !.fails = @ + 1]
      /\ UNCHANGED <<storeVars, persistVars, msgs, perm>>

\* the bot's roles change: ManageMessages is granted or revoked in guild g
SetPermission(g, allowed) ==
  /\ perm[g] # allowed
  /\ obs.permChanges < MaxPermChanges
  /\ perm' = [perm EXCEPT ![g] = allowed]
  /\ obs' = [obs EXCEPT !.permChanges = @ + 1]
  /\ UNCHANGED <<storeVars, persistVars, msgs, handlers>>

(***************************************************************************)
(* Initial states and specifications.                                      *)
(***************************************************************************)
NoObs ==
  [posted |-> 0, fails |-> 0, permChanges |-> 0, evals |-> {}, fetchReqs |-> {}, fetched |-> {}, reqs |-> {},
   deleted |-> {}, failed |-> {}]
NoHist ==
  [cmds |-> 0, restarts |-> 0, reply |-> "none", lastWrite |-> "none", fails |-> 0, early |-> FALSE,
   pre |-> EmptyData, loaded |-> EmptyData, log |-> <<>>]
Message(author, c, content) ==
  [author |-> author, channel |-> c, content |-> content, deleted |-> FALSE]

\* a snapshot written by the version without watchman mode
OldFile ==
  [kind |-> "file", has |-> FieldNames \ {"watchmanChannels"},
   json |-> [EmptyData EXCEPT !.blockRules = <<[k |-> "c1", v |-> <<<<"a">>>>]>>]]
InitDisks == {NoFile, Malformed, OldFile}

\* the process starts: the ready handler is waiting for loadData
Init ==
  /\ blockRules = <<>>
  /\ globalBlockRules = <<>>
  /\ allowLists = <<>>
  /\ watchmanChannels = <<>>
  /\ phase = "loading"
  /\ disk \in InitDisks
  /\ saves = <<>>
  /\ msgs = <<>>
  /\ perm = [g \in Guilds |-> TRUE]
  /\ handlers = <<>>
  /\ obs = NoObs
  /\ backups = <<>>
  /\ clock = 1
  /\ hist = NoHist

\* the rule sets, allowlists and watchman sets the message handling is checked for
RuleSets == {<<>>, <<<<"a">>>>, <<<<"b">>>>, <<<<"a">>, <<"b">>>>}
ChannelConfigs == {<<>>} \cup {<<[k |-> "c1", v |-> rs]>> : rs \in RuleSets}
GlobalConfigs == {<<>>} \cup {<<[k |-> "g1", v |-> rs]>> : rs \in RuleSets}
AllowConfigs ==
  {<<>>} \cup {<<[k |-> "g1", v |-> allow]>> :
                 allow \in {NewAllow, [NewAllow EXCEPT !.users = <<"u2">>],
                            [NewAllow EXCEPT !.roles = <<"r1">>]}}
WatchmanConfigs == {<<>>, <<"c1">>}

\* the bot is running with a configured store that has been saved
InitMsg ==
  /\ blockRules \in ChannelConfigs
  /\ globalBlockRules \in GlobalConfigs
  /\ allowLists \in AllowConfigs
  /\ watchmanChannels \in WatchmanConfigs
  /\ phase = "running"
  /\ disk = SnapshotOf(Store)
  /\ saves = <<>>
  /\ msgs = <<>>
  /\ perm = [g \in Guilds |-> TRUE]
  /\ handlers = <<>>
  /\ obs = NoObs
  /\ backups = <<>>
  /\ clock = 1
  /\ hist = NoHist

\* the channel holds HistoryLen messages from before the bot watched it: links
\* of user u1; the newest and the two that will be 6th and 7th newest after the
\* next arrival may hold the blocked partial
HistoryLen == 6
BadPositions == {HistoryLen - 5, HistoryLen - 4, HistoryLen}
WindowHistories ==
  {[i \in 1..HistoryLen |->
      Message("u1", "c1", IF i \in bad THEN TxtLinkA ELSE TxtLinkClean)] :
     bad \in SUBSET BadPositions}

\* the bot is running with watchman mode enabled in channel c1, where "a" is blocked
InitWindow ==
  /\ blockRules = <<[k |-> "c1", v |-> <<<<"a">>>>]>>
  /\ globalBlockRules \in {<<>>, <<[k |-> "g1", v |-> <<<<"a">>>>]>>}
  /\ allowLists = <<>>
  /\ watchmanChannels = <<"c1">>
  /\ phase = "running"
  /\ disk = SnapshotOf(Store)
  /\ saves = <<>>
  /\ msgs \in WindowHistories
  /\ perm = [g \in Guilds |-> TRUE]
  /\ handlers = <<>>
  /\ obs = NoObs
  /\ backups = <<>>
  /\ clock = 1
  /\ hist = NoHist

\* the messages posted: any text of a user in channel c1, a link of the bot,
\* and a direct message
PostInputs ==
  {<<a, "c1", t>> : a \in Users, t \in Texts \ {TxtLinkClean}}
    \cup {<<Bot, "c1", TxtLinkA>>, <<"u1", DmChannel, TxtLinkA>>}

\* the stores and the data files the DataManager is checked for
CodecStores ==
  {[blockRules |-> b, globalBlockRules |-> g, allowLists |-> a, watchmanChannels |-> w] :
     b \in ChannelConfigs \cup
             {<<[k |-> "c2", v |-> <<<<"b">>>>], [k |-> "c1", v |-> <<<<"a">>, <<"b">>>>]>>},
     g \in GlobalConfigs,
     a \in AllowConfigs \cup
             {<<[k |-> "g2", v |-> NewAllow],
                [k |-> "g1", v |-> [users |-> <<"u2", "u1">>, roles |-> <<"r1">>]]>>},
     w \in WatchmanConfigs \cup {<<"c2", "c1">>}}
\* a snapshot of data in which only the top-level fields of has are present
PartialFile(has, data) ==
  [kind |-> "file", has |-> has,
   json |-> [f \in FieldNames |-> IF f \in has THEN Serialize(data)[f] ELSE <<>>]]
CodecDisks ==
  {NoFile, Malformed}
    \cup {IllTypedOf(d) : d \in CodecStores}
    \cup {PartialFile(has, d) : has \in SUBSET FieldNames, d \in CodecStores}

\* either the process starts with some data file, or the bot is running and a
\* command has just changed the store and called autoSave
InitCodec ==
  /\ \/ /\ phase = "loading"
        /\ blockRules = <<>> /\ globalBlockRules = <<>>
        /\ allowLists = <<>> /\ watchmanChannels = <<>>
        /\ disk \in CodecDisks
        /\ saves = <<>>
        /\ hist = NoHist
     \/ /\ phase = "running"
        /\ \E d \in CodecStores :
             /\ blockRules = d.blockRules /\ globalBlockRules = d.globalBlockRules
             /\ allowLists = d.allowLists /\ watchmanChannels = d.watchmanChannels
        /\ disk = NoFile
        /\ saves = <<[stage |-> "ensureDir", snap |-> NoFile, cmd |-> "block", at |-> 0]>>
        /\ hist = [NoHist EXCEPT !.cmds = 1, !.reply = "pending"]
  /\ msgs = <<>>
  /\ perm = [g \in Guilds |-> TRUE]
  /\ handlers = <<>>
  /\ obs = NoObs
  /\ backups = <<>>
  /\ clock = 1

NextCodec ==
  \/ \E i \in 1..Len(saves) : SaveSerialize(i)
  \/ \E i \in 1..Len(saves) : WriteDone(i)
  \/ \E i \in 1..Len(saves) : WriteFail(i)
  \/ ReadyLoaded
  \/ Restart

\* the bot is running with a saved store; the commands that only read the
\* store, the backup, and unblock with its save
InitRead ==
  /\ \E d \in CodecStores :
       /\ blockRules = d.blockRules /\ globalBlockRules = d.globalBlockRules
       /\ allowLists = d.allowLists /\ watchmanChannels = d.watchmanChannels
  /\ phase = "running"
  /\ disk = SnapshotOf(Store)
  /\ saves = <<>>
  /\ msgs = <<>>
  /\ perm = [g \in Guilds |-> TRUE]
  /\ handlers = <<>>
  /\ obs = NoObs
  /\ backups = <<>>
  /\ clock = 1
  /\ hist = NoHist

NextRead ==
  \/ \E c \in Channels : CmdList(c)
  \/ \E g \in Guilds : CmdListGlobal(g)
  \/ \E g \in Guilds : CmdListAllow(g)
  \/ CmdStats("g1")
  \/ CmdBackup("g1")
  \/ \E c \in Channels, p \in PartialInputs : CmdUnblock(c, p)
  \/ \E i \in 1..Len(saves) : SaveSerialize(i)
  \/ \E i \in 1..Len(saves) : WriteDone(i)
  \/ \E i \in 1..Len(saves) : WriteFail(i)
  \/ \E i \in 1..Len(saves) : BackupDone(i)
  \/ \E i \in 1..Len(saves) : BackupFail(i)
  \/ Tick

\* rules keyed by one channel and one guild, with messages in three channels:
\* c1 and its sibling c3 in guild g1, and c2 in guild g2
InitScope ==
  /\ blockRules \in {<<[k |-> "c1", v |-> <<<<"a">>>>]>>,
                     <<[k |-> "c1", v |-> <<<<"a">>>>], [k |-> "c2", v |-> <<<<"b">>>>]>>}
  /\ globalBlockRules \in {<<>>, <<[k |-> "g1", v |-> <<<<"b">>>>]>>,
                           <<[k |-> "g2", v |-> <<<<"a">>>>]>>}
  /\ allowLists = <<>>
  /\ watchmanChannels \in {<<>>, <<"c1">>, <<"c2", SiblingChannel>>}
  /\ phase = "running"
  /\ disk = SnapshotOf(Store)
  /\ saves = <<>>
  /\ msgs = <<>>
  /\ perm = [g \in Guilds |-> TRUE]
  /\ handlers = <<>>
  /\ obs = NoObs
  /\ backups = <<>>
  /\ clock = 1
  /\ hist = NoHist
ScopeInputs ==
  {<<"u1", c, t>> : c \in Channels \cup {SiblingChannel}, t \in {TxtLinkA, TxtLinkAB}}

NextScope ==
  \/ \E in \in ScopeInputs : Post(in[1], in[2], in[3])
  \/ \E i \in 1..Len(handlers) : FetchReturn(i)
  \/ \E i \in 1..Len(handlers) : FetchFail(i)
  \/ \E i \in 1..Len(handlers) : DeleteOk(i)
  \/ \E i \in 1..Len(handlers) : DeleteFail(i)

NextMsg ==
  \/ \E in \in PostInputs : Post(in[1], in[2], in[3])
  \/ \E i \in 1..Len(handlers) : FetchReturn(i)
  \/ \E i \in 1..Len(handlers) : FetchFail(i)
  \/ \E i \in 1..Len(handlers) : DeleteOk(i)
  \/ \E i \in 1..Len(handlers) : DeleteFail(i)
  \/ \E allowed \in BOOLEAN : SetPermission("g1", allowed)

NextCmd ==
  \/ CmdRejected
  \/ \E c \in Channels, p \in PartialInputs : CmdBlock(c, p)
  \/ \E c \in Channels, p \in PartialInputs : CmdUnblock(c, p)
  \/ \E g \in Guilds, p \in PartialInputs : CmdBlockGlobal(g, p)
  \/ \E g \in Guilds, p \in PartialInputs : CmdUnblockGlobal(g, p)
  \/ \E g \in Guilds, u \in Users : CmdAllowUser(g, u)
  \/ \E g \in Guilds, u \in Users : CmdRemoveAllow(g, u)
  \/ \E g \in Guilds, r \in Roles : CmdAllowRole(g, r)
  \/ \E g \in Guilds, r \in Roles : CmdRemoveAllowRole(g, r)
  \/ \E g \in Guilds : CmdListAllow(g)
  \/ \E c \in Channels, e \in BOOLEAN : CmdWatchman(c, e)
  \/ \E i \in 1..Len(saves) : SaveSerialize(i)
  \/ \E i \in 1..Len(saves) : WriteDone(i)
  \/ \E i \in 1..Len(saves) : WriteFail(i)
  \/ ReadyLoaded
  \/ Restart

Next == NextCmd \/ NextRead \/ NextMsg

\* the whole bot from process start
Spec == Init /\ [][Next]_vars
\* the commands and the persistence of the store
SpecCmd == Init /\ [][NextCmd]_vars
\* the message handling of a configured bot
SpecMsg == InitMsg /\ [][NextMsg]_vars
\* the message handling in a watched channel with a history
SpecWindow == InitWindow /\ [][NextMsg]_vars
\* the message handling in three channels of two guilds
SpecScope == InitScope /\ [][NextScope]_vars
\* saveData and loadData on bounded stores and data files
SpecCodec == InitCodec /\ [][NextCodec]_vars
\* the reading commands, the backup and unblock on a saved store
SpecRead == InitRead /\ [][NextRead]_vars

(***************************************************************************)
(* Properties.                                                             *)
(***************************************************************************)
\* the users (roles) allowlisted in guild g by the collections of data
AllowedUsers(data, g) ==
  IF MapHas(data.allowLists, g) THEN Members(MapGet(data.allowLists, g).users) ELSE {}
AllowedRoles(data, g) ==
  IF MapHas(data.allowLists, g) THEN Members(MapGet(data.allowLists, g).roles) ELSE {}
\* the rules of key k in a rule map, {} when the key is absent
RuleMembers(m, k) == IF MapHas(m, k) THEN Members(MapGet(m, k)) ELSE {}
\* two stores hold the same settings
SameSettings(d1, d2) ==
  /\ MapKeys(d1.blockRules) = MapKeys(d2.blockRules)
  /\ MapKeys(d1.globalBlockRules) = MapKeys(d2.globalBlockRules)
  /\ \A c \in Channels : RuleMembers(d1.blockRules, c) = RuleMembers(d2.blockRules, c)
  /\ \A g \in Guilds :
       /\ RuleMembers(d1.globalBlockRules, g) = RuleMembers(d2.globalBlockRules, g)
       /\ AllowedUsers(d1, g) = AllowedUsers(d2, g)
       /\ AllowedRoles(d1, g) = AllowedRoles(d2, g)
  /\ Members(d1.watchmanChannels) = Members(d2.watchmanChannels)

\* C2: durability across restart.  After a restart (made while no handler is in
\* progress) the store that loadData returns holds the same channel rules, global
\* rules, allowlisted users and roles and watchman channels as the in-memory
\* store held before the restart.  Stated for the runs in which no write failed
\* and no command was handled while the startup load was in progress.
C2_DurableAcrossRestart ==
  (hist.restarts > 0 /\ phase = "running" /\ hist.fails = 0 /\ ~hist.early)
    => SameSettings(hist.loaded, hist.pre)

(***************************************************************************)
(* Properties of the message handling.  In SpecMsg and SpecWindow the      *)
(* store does not change, so the rules and allowlists of a state are those *)
(* every event of the behaviour was handled with.                          *)
(***************************************************************************)
\* the messages whose messageCreate event the bot has handled
Events == {id \in MsgIds : id > Len(msgs) - obs.posted}
HasLink(text) == Includes(ToLowerCase(text), Http)
\* the text, lowercased, contains a partial of the set rules
Blocked(text, rules) == \E p \in rules : Includes(ToLowerCase(text), p)
ChannelRules(c) == RuleMembers(blockRules, c)
GlobalRules(g) == RuleMembers(globalBlockRules, g)
Watched(c) == c \in Members(watchmanChannels)
\* what the handler of event ev did at the messaging boundary
ReqsOf(ev) == {r \in obs.reqs : r.ev = ev}
FetchesOf(ev) == {f \in obs.fetchReqs : f.ev = ev}
EvalsOf(ev) == {e \in obs.evals : e.ev = ev}
Finished(ev) == \A i \in 1..Len(handlers) : handlers[i].ev # ev
\* the author is exempt in guild g: by user id or by one of the author's roles
Exempt(g, author) ==
  \/ author \in AllowedUsers(Store, g)
  \/ Members(RolesOf(author)) \cap AllowedRoles(Store, g) # {}

\* C1: allowlist precedence.  A message of a user allowlisted in its guild that
\* contains "http" and a blocked partial is never deleted, whatever the rules
\* and the watchman setting are and whatever arrives later in the channel.
C1_AllowlistedNeverDeleted ==
  \A id \in MsgIds :
    LET m == msgs[id]
        g == GuildOf(m.channel)
    IN  ( /\ m.author \in AllowedUsers(Store, g)
          /\ HasLink(m.content)
          /\ Blocked(m.content, ChannelRules(m.channel) \cup GlobalRules(g)) )
        => ~m.deleted

\* C3: match pre-filter.  Every delete request, in normal and in watchman mode,
\* is for a message whose lowercased text (as the handler has it) contains "http".
C3_NoLinkNoDeleteRequest ==
  \A r \in obs.reqs : HasLink(r.seen) /\ r.seen = msgs[r.msg].content
\* a watchman scan has examined a window holding a message without "http" whose
\* text is a blocked partial of the channel, and has requested no delete for it
C3_Witness ==
  \E f \in obs.fetched : \E k \in 1..Len(f.ids) :
    LET m == msgs[f.ids[k]]
    IN  /\ f.scan = "channel" /\ f.perm
        /\ m.content = TxtPlainA /\ ~IsBot(m.author)
        /\ m.content \in ChannelRules(m.channel)
        /\ Finished(f.ev)
        /\ ~\E r \in obs.reqs : r.msg = f.ids[k]

\* C9: start-state filter.  An event whose author is a bot, that has no guild,
\* or whose text is empty causes no rule evaluation, no fetch and no delete
\* request, whatever the rules and the watchman setting are.
C9_FilteredAtStart ==
  \A ev \in Events :
    (msgs[ev].author = Bot \/ GuildOf(msgs[ev].channel) = NoGuild \/ msgs[ev].content = <<>>)
      => (EvalsOf(ev) = {} /\ FetchesOf(ev) = {} /\ ReqsOf(ev) = {} /\ Finished(ev))
\* the bot has posted a link with a blocked partial in a watched channel where
\* it may delete, and a direct message with a link has arrived
C9_Witness ==
  /\ \E ev \in Events :
       /\ msgs[ev].author = Bot /\ msgs[ev].channel = "c1" /\ perm["g1"]
       /\ Watched("c1") /\ Blocked(msgs[ev].content, ChannelRules("c1"))
  /\ \E ev \in Events : msgs[ev].channel = DmChannel

\* C10: allowlist short-circuit.  When the author of the event's message is an
\* allowlisted user of the guild or has an allowlisted role, the handler returns
\* with no rule evaluation, no fetch and no delete request, also in a watched channel.
C10_AllowlistShortCircuit ==
  \A ev \in Events :
    Exempt(GuildOf(msgs[ev].channel), msgs[ev].author)
      => (EvalsOf(ev) = {} /\ FetchesOf(ev) = {} /\ ReqsOf(ev) = {} /\ Finished(ev))
\* a user exempt by role only has posted a blocked link in a watched channel
C10_Witness ==
  \E ev \in Events :
    /\ msgs[ev].author = "u2" /\ msgs[ev].channel = "c1" /\ Watched("c1")
    /\ AllowedUsers(Store, "g1") = {} /\ "r1" \in AllowedRoles(Store, "g1")
    /\ HasLink(msgs[ev].content) /\ Blocked(msgs[ev].content, ChannelRules("c1"))
    /\ perm["g1"]

\* event ev is handled in normal mode and its message matches both a rule of
\* its channel and a global rule of its guild
NormalBoth(ev) ==
  LET m == msgs[ev]
      g == GuildOf(m.channel)
  IN  /\ m.author # Bot /\ g # NoGuild /\ ~Exempt(g, m.author)
      /\ ~Watched(m.channel)
      /\ HasLink(m.content)
      /\ Blocked(m.content, ChannelRules(m.channel))
      /\ Blocked(m.content, GlobalRules(g))
GlobalEvaluated(ev) == [ev |-> ev, scan |-> "global"] \in obs.evals

C6_DeleteFailureHalts ==
  \A x \in obs.failed :
    Watched(msgs[x.ev].channel) => ~\E r \in ReqsOf(x.ev) : r.n > x.n

\* C7: watchman first match wins.  Once a window message has been deleted
\* successfully the handler has returned: that delete is the event's last delete
\* request and its only deletion, and after a deletion by the channel scan the
\* global rule set is not scanned.
C7_FirstMatchWins ==
  \A d \in obs.deleted :
    Watched(msgs[d.ev].channel) =>
      /\ Finished(d.ev)
      /\ ~\E r \in ReqsOf(d.ev) : r.n > d.n
      /\ \A d2 \in obs.deleted : d2.ev = d.ev => d2 = d
      /\ d.scan = "channel" => ~GlobalEvaluated(d.ev)
\* the channel scan has deleted one window message while another message of
\* the same window, matching a channel rule and a global rule, is still there
C7_Witness ==
  \E d \in obs.deleted : \E f \in obs.fetched : \E k \in 1..Len(f.ids) :
    LET m == msgs[f.ids[k]]
    IN  /\ f.ev = d.ev /\ f.scan = "channel" /\ d.scan = "channel"
        /\ Watched(m.channel) /\ f.perm /\ perm[GuildOf(m.channel)]
        /\ f.ids[k] # d.msg /\ ~m.deleted /\ m.author # Bot
        /\ HasLink(m.content)
        /\ Blocked(m.content, ChannelRules(m.channel))
        /\ Blocked(m.content, GlobalRules(GuildOf(m.channel)))

\* C8: permission gate.  No delete request is issued while the bot lacks
\* ManageMessages in the guild of the message.
C8_NoRequestWithoutPermission ==
  \A r \in obs.reqs : r.perm

\* the rule set a fetch was made for
ScannedRules(f) ==
  IF f.scan = "channel" THEN ChannelRules(msgs[f.ev].channel)
  ELSE GlobalRules(GuildOf(msgs[f.ev].channel))
\* message id of the channel as fetch f found it is one the scan must act on
Actionable(f, id) ==
  /\ f.perm
  /\ msgs[id].author # Bot
  /\ HasLink(msgs[id].content)
  /\ Blocked(msgs[id].content, ScannedRules(f))

\* C5: watchman window bound.  Of the messages the channel holds when the fetch
\* of an event is answered (f.live, newest first), the first of the 6 newest that
\* the scan must act on gets a delete request, the 6th included; and every
\* delete request of the event is for one of those 6, never for an older message.
C5_WindowOfSix ==
  /\ \A f \in obs.fetched : \A k \in 1..6 :
       ( /\ k <= Len(f.live)
         /\ Actionable(f, f.live[k])
         /\ \A j \in 1..(k - 1) : ~Actionable(f, f.live[j]) )
       => \E r \in ReqsOf(f.ev) : r.scan = f.scan /\ r.msg = f.live[k]
  /\ \A r \in obs.reqs :
       Watched(msgs[r.ev].channel) =>
         \E f \in obs.fetched : \E k \in 1..6 :
           f.ev = r.ev /\ f.scan = r.scan /\ k <= Len(f.live) /\ f.live[k] = r.msg
\* the 6th message of a window was the first match and has been deleted, while
\* the 7th newest message of the channel, which matches too, is still there
C5_Witness ==
  \E f \in obs.fetched :
    /\ Len(f.live) >= 7 /\ Finished(f.ev)
    /\ \A j \in 1..5 : ~Actionable(f, f.live[j])
    /\ Actionable(f, f.live[6]) /\ msgs[f.live[6]].deleted
    /\ Actionable(f, f.live[7]) /\ ~msgs[f.live[7]].deleted
    /\ ~\E r \in obs.reqs : r.msg = f.live[7]

\* the rule set a delete request was made from: the one keyed by the channel
\* of the message, or the one keyed by its guild
OwnRules(r) ==
  IF r.scan = "channel" THEN ChannelRules(msgs[r.msg].channel)
  ELSE GlobalRules(GuildOf(msgs[r.msg].channel))

\* C11: scope isolation.  Every delete request is made for a partial of the
\* rule set keyed by the message's own channel id or own guild id, and a
\* message that contains no partial of those two rule sets is never deleted,
\* whatever is blocked for other channels and other guilds.
C11_ScopeIsolation ==
  /\ \A r \in obs.reqs : Blocked(msgs[r.msg].content, OwnRules(r))
  /\ \A id \in MsgIds :
       msgs[id].deleted =>
         Blocked(msgs[id].content,
                 ChannelRules(msgs[id].channel) \cup GlobalRules(GuildOf(msgs[id].channel)))
\* the same link has been posted in c1, where its partial is blocked, and in
\* another channel, where neither the channel nor the guild blocks it; both
\* events are finished, the first message is deleted and the second is not
C11_Witness ==
  \E i, j \in Events :
    /\ msgs[i].channel = "c1" /\ msgs[j].channel # "c1"
    /\ msgs[i].content = msgs[j].content
    /\ Finished(i) /\ Finished(j)
    /\ msgs[i].deleted /\ ~msgs[j].deleted
    /\ Blocked(msgs[j].content, ChannelRules("c1"))
    /\ ~Blocked(msgs[j].content,
                ChannelRules(msgs[j].channel) \cup GlobalRules(GuildOf(msgs[j].channel)))
    /\ blockRules # <<>> /\ obs.fails = 0

(***************************************************************************)
(* Properties of the commands and of the persistence.                      *)
(***************************************************************************)
\* C12: save after every mutation.  Whenever the bot is running, no command is
\* in progress (no autoSave is pending) and the last write succeeded, the data
\* file holds the serialization of the in-memory store.  Stated for the runs in
\* which no command was handled while the startup load was in progress.
C12_SnapshotEqualsStore ==
  (phase = "running" /\ saves = <<>> /\ hist.lastWrite = "ok" /\ ~hist.early)
    => disk = SnapshotOf(Store)

\* C13: a write failure is surfaced.  The command whose snapshot write failed
\* does not answer with its success confirmation.
C13_WriteFailureSurfaced ==
  ~(hist.lastWrite = "failed" /\ hist.reply = "ok")

\* two stores have the same map keys and the same set memberships
SameStore(d1, d2) ==
  /\ SameSettings(d1, d2)
  /\ MapKeys(d1.allowLists) = MapKeys(d2.allowLists)

\* C14: round trip.  Loading the snapshot that saveData writes for a store
\* yields a store with the same map keys and the same set memberships: for the
\* store of every state, and for the store a restart found written by the one
\* save of the run when that write did not fail.
C14_RoundTrip ==
  /\ SameStore(LoadData(SnapshotOf(Store)), Store)
  /\ (hist.restarts > 0 /\ phase = "running" /\ hist.cmds > 0 /\ hist.fails = 0)
       => SameStore(hist.loaded, hist.pre)
\* a store with an empty rule set, an empty allowlist entry and an empty
\* watchman set has been saved, and loaded again after a restart
C14_Witness ==
  /\ hist.restarts > 0 /\ phase = "running" /\ hist.cmds > 0 /\ hist.fails = 0
  /\ hist.pre.blockRules = <<[k |-> "c1", v |-> <<>>]>>
  /\ hist.pre.allowLists = <<[k |-> "g1", v |-> NewAllow]>>
  /\ hist.pre.watchmanChannels = <<>>
  /\ hist.pre.globalBlockRules # <<>>
  /\ Store = hist.loaded

\* hist.loaded is what loadData returned for the data file as it is now
LoadedFromDisk ==
  /\ phase = "running"
  /\ saves = <<>>
  /\ hist.cmds = 0 \/ hist.restarts > 0
\* the collection of field f in data has the keys and the members that the
\* member f of the file's JSON object has
KeepsField(file, data, f) ==
  LET obj == file.json[f]
  IN  IF f = "watchmanChannels" THEN Members(data[f]) = Members(obj)
      ELSE /\ MapKeys(data[f]) = {obj[i].k : i \in 1..Len(obj)}
           /\ \A i \in 1..Len(obj) :
                IF f = "allowLists"
                THEN /\ Members(MapGet(data[f], obj[i].k).users) = Members(obj[i].v.users)
                     /\ Members(MapGet(data[f], obj[i].k).roles) = Members(obj[i].v.roles)
                ELSE Members(MapGet(data[f], obj[i].k)) = Members(obj[i].v)

\* C15: forward compatibility.  Loading a snapshot in which top-level fields
\* are absent yields an empty collection for each absent field and keeps the
\* content of each present field; the store is what the load returned.
C15_MissingFieldsDefault ==
  (LoadedFromDisk /\ disk.kind = "file")
    => /\ \A f \in FieldNames :
            IF f \in disk.has THEN KeepsField(disk, hist.loaded, f)
            ELSE hist.loaded[f] = <<>>
       /\ Store = hist.loaded
\* a snapshot without the field watchmanChannels, holding rules and an
\* allowlist, has been loaded
C15_Witness ==
  /\ LoadedFromDisk /\ disk.kind = "file"
  /\ disk.has = FieldNames \ {"watchmanChannels"}
  /\ hist.loaded.blockRules # <<>> /\ hist.loaded.allowLists # <<>>
  /\ watchmanChannels = <<>> /\ blockRules = hist.loaded.blockRules

Log == hist.log
Entries == {Log[i] : i \in 1..Len(Log)}
Consecutive(e1, e2) ==
  /\ Len(Log) = 2 /\ e1 = Log[1] /\ e2 = Log[2]
  /\ e2.pre = e1.post /\ e1.key = e2.key
\* the Set of a store that the command of entry e addresses, empty when the
\* store has no entry for the key
AddressedSet(e, data) ==
  CASE e.cmd \in {"block", "unblock"} -> RulesOf(data.blockRules, e.key)
    [] e.cmd \in {"block-global", "unblock-global"} -> RulesOf(data.globalBlockRules, e.key)
    [] e.cmd \in {"allow-user", "remove-allow"} ->
         IF MapHas(data.allowLists, e.key) THEN MapGet(data.allowLists, e.key).users ELSE <<>>
    [] OTHER ->
         IF MapHas(data.allowLists, e.key) THEN MapGet(data.allowLists, e.key).roles ELSE <<>>
\* the element the command of entry e adds or removes
Element(e) ==
  IF e.cmd \in {"block", "unblock", "block-global", "unblock-global"}
  THEN ToLowerCase(e.arg) ELSE e.arg
Without(set, x) == SelectSeq(set, LAMBDA y : y # x)
AddCmds == {"block", "block-global", "allow-user", "allow-role"}

\* C17: idempotent add.  block, block-global, allow-user and allow-role leave
\* the addressed set with the element present exactly once and the other
\* elements as they were; when the element was present already the whole
\* store is unchanged, so the command executed twice in a row leaves what
\* executing it once left.
C17_IdempotentAdd ==
  /\ \A e \in Entries :
       e.cmd \in AddCmds =>
         LET before == AddressedSet(e, e.pre)
             after == AddressedSet(e, e.post)
         IN  /\ Members(after) = Members(before) \cup {Element(e)}
             /\ Len(after) = Cardinality(Members(after))
             /\ Without(after, Element(e)) = Without(before, Element(e))
             /\ Element(e) \in Members(before) => e.post = e.pre
  /\ \A e1, e2 \in Entries :
       ( /\ Consecutive(e1, e2)
         /\ e1.cmd \in AddCmds /\ e2.cmd = e1.cmd /\ Element(e1) = Element(e2) )
       => e2.post = e1.post
\* block has been executed twice in a row for the same channel and partial,
\* the channel holding another partial before
C17_Witness ==
  \E e1, e2 \in Entries :
    /\ Consecutive(e1, e2)
    /\ e1.cmd = "block" /\ e2.cmd = "block" /\ Element(e1) = Element(e2)
    /\ AddressedSet(e1, e1.pre) # <<>>
    /\ Element(e1) \notin Members(AddressedSet(e1, e1.pre))
    /\ Len(AddressedSet(e2, e2.post)) = 2

\* C18: add/remove symmetry.  unblock of a partial that the channel's rule set
\* holds (compared after lowercasing) removes exactly that partial and goes on
\* to its confirmation; unblock of a partial the rule set does not hold reports
\* not-found.  So unblock directly after block of the same partial, in whatever
\* letter case, leaves the set without it, and an unblock directly after a
\* successful unblock of the same partial reports not-found.
C18_AddRemoveSymmetry ==
  /\ \A e \in Entries :
       e.cmd = "unblock" =>
         LET before == Members(AddressedSet(e, e.pre))
             after == Members(AddressedSet(e, e.post))
         IN  IF Element(e) \in before
             THEN e.reply = "pending" /\ after = before \ {Element(e)}
             ELSE e.reply = "notfound"
  /\ \A e1, e2 \in Entries :
       ( /\ Consecutive(e1, e2)
         /\ e2.cmd = "unblock" /\ e1.cmd \in {"block", "unblock"}
         /\ Element(e1) = Element(e2) ) =>
         /\ e1.cmd = "block" =>
              (e2.reply = "pending" /\ Element(e2) \notin Members(AddressedSet(e2, e2.post)))
         /\ (e1.cmd = "unblock" /\ e1.reply = "pending") => e2.reply = "notfound"
\* a partial blocked in upper case has been unblocked in lower case
C18_Witness ==
  \E e1, e2 \in Entries :
    /\ Consecutive(e1, e2)
    /\ e1.cmd = "block" /\ e2.cmd = "unblock"
    /\ e1.arg # e2.arg /\ Element(e1) = Element(e2)
    /\ e2.reply = "pending"
    /\ Element(e2) \notin RuleMembers(blockRules, e2.key)

\* C19: a failed remove changes nothing.  unblock and unblock-global for a key
\* without rule set, or whose rule set does not hold the partial, report
\* not-found, leave the whole store as it was and do not call autoSave.
C19_FailedRemoveChangesNothing ==
  \A e \in Entries :
    ( /\ e.cmd \in {"unblock", "unblock-global"}
      /\ Element(e) \notin Members(AddressedSet(e, e.pre)) )
    => (e.reply = "notfound" /\ e.post = e.pre /\ ~e.save)
\* unblock has failed for a channel whose rule set holds another partial, and
\* unblock-global for a guild without rule set; nothing is being saved and the
\* file is as it was loaded
C19_Witness ==
  \E e1, e2 \in Entries :
    /\ Log = <<e1, e2>>
    /\ e1.cmd = "unblock" /\ e1.reply = "notfound"
    /\ MapHas(e1.pre.blockRules, e1.key) /\ AddressedSet(e1, e1.pre) # <<>>
    /\ e2.cmd = "unblock-global" /\ e2.reply = "notfound"
    /\ ~MapHas(e2.pre.globalBlockRules, e2.key)
    /\ saves = <<>> /\ Store = e1.pre /\ hist.lastWrite = "none"
    /\ phase = "running" /\ ~hist.early /\ disk = OldFile

\* C20: watchman toggle.  When the requested state already holds for the
\* channel the command reports it, leaves the store as it was and does not call
\* autoSave; otherwise it flips the membership of exactly that channel, leaves
\* the rules and the allowlists as they were, and calls autoSave.
C20_WatchmanToggle ==
  \A e \in Entries :
    e.cmd = "watchman" =>
      LET before == Members(e.pre.watchmanChannels)
          after == Members(e.post.watchmanChannels)
      IN  IF e.arg = (e.key \in before)
          THEN e.reply = "already" /\ e.post = e.pre /\ ~e.save
          ELSE /\ e.reply = "pending" /\ e.save
               /\ after = (IF e.arg THEN before \cup {e.key} ELSE before \ {e.key})
               /\ Len(e.post.watchmanChannels) = Cardinality(after)
               /\ e.post.blockRules = e.pre.blockRules
               /\ e.post.globalBlockRules = e.pre.globalBlockRules
               /\ e.post.allowLists = e.pre.allowLists
\* watchman mode has been enabled for a channel, and enabling it once more
\* has been refused
C20_Witness ==
  \E e1, e2 \in Entries :
    /\ Consecutive(e1, e2)
    /\ e1.cmd = "watchman" /\ e1.arg /\ e1.reply = "pending"
    /\ e2.cmd = "watchman" /\ e2.arg /\ e2.reply = "already"
    /\ e1.pre.blockRules # <<>>
    /\ Members(watchmanChannels) = {e1.key}
    /\ Len(saves) <= 1

\* the entries of the command history by position
LogIdx == 1..Len(Log)
ListCmds == {"list", "list-global", "list-allow"}
\* the keys of a Map whose Set is not empty
ActiveKeys(m) == {m[i].k : i \in {j \in 1..Len(m) : m[j].v # <<>>}}
\* the number of partials in the Sets of a Map, counted key by key
RECURSIVE TotalOver(_, _)
TotalOver(m, keys) ==
  IF keys = {} THEN 0
  ELSE LET k == CHOOSE x \in keys : TRUE
       IN  Cardinality(Members(MapGet(m, k))) + TotalOver(m, keys \ {k})

\* C21: list operations are pure reads.  list, list-global and list-allow
\* leave the four collections as they were (the key sets of the three maps
\* included), start no write of the data file, and show an empty collection
\* for a channel or guild that has no entry.
C21_ListsArePureReads ==
  \A i \in LogIdx :
    Log[i].cmd \in ListCmds =>
      /\ Log[i].post = Log[i].pre
      /\ ~Log[i].save
      /\ (Log[i].cmd = "list" /\ ~MapHas(Log[i].pre.blockRules, Log[i].key))
           => (Log[i].reply = "none" /\ Log[i].arg = <<>>)
      /\ (Log[i].cmd = "list-global" /\ ~MapHas(Log[i].pre.globalBlockRules, Log[i].key))
           => (Log[i].reply = "none" /\ Log[i].arg = <<>>)

\* C22: backup is side-effect free for the canonical state.  The backup
\* command and every step of createBackup leave the data file and the four
\* collections as they were; the step that serialises takes the snapshot of
\* the store of that moment, the step that ends the write adds that snapshot
\* as a new backup file; when the write fails there is no new file or a
\* truncated one, and in both cases the bot keeps running and the command
\* replies.
C22_BackupSideEffectFree ==
  [][ /\ ( /\ Len(hist'.log) = Len(hist.log) + 1
           /\ hist'.log[Len(hist'.log)].cmd = "backup" )
        => (Store' = Store /\ disk' = disk /\ backups' = backups /\ phase' = phase)
      /\ \A i \in 1..Len(saves) :
           saves[i].cmd = "backup" =>
             /\ (Len(saves') = Len(saves) /\ saves'[i] # saves[i])
                  => /\ saves'[i].snap = SnapshotOf(Store)
                     /\ Store' = Store /\ disk' = disk /\ backups' = backups
                     /\ phase' = phase
             /\ saves' = RemoveAt(saves, i)
                  => /\ Store' = Store /\ disk' = disk /\ phase' = phase
                     /\ hist'.reply = "backup-ok"
                     /\ \/ backups' = MapSet(backups, saves[i].at, saves[i].snap)
                        \/ /\ hist'.fails = hist.fails + 1
                           /\ backups' \in {backups, MapSet(backups, saves[i].at, Malformed)}
    ]_vars
\* a backup file has been written while the store had already diverged from
\* the data file: the backup holds the store, the data file is as it was
C22_Witness ==
  /\ Len(backups) = 1 /\ backups[1].v = SnapshotOf(Store)
  /\ hist.reply = "backup-ok" /\ saves = <<>> /\ phase = "running"
  /\ disk # SnapshotOf(Store)
  /\ Len(Log) = 2 /\ Log[2].cmd = "backup" /\ disk = SnapshotOf(Log[1].pre)

\* C23: stats aggregation.  stats leaves the store as it was and shows the
\* number of watchman channels, of guilds with an allowlist, of guilds with
\* global rules and of channels with rules, and the number of partials over
\* all channel rule sets and over all global rule sets.
C23_StatsAggregation ==
  \A i \in LogIdx :
    Log[i].cmd = "stats" =>
      LET d == Log[i].pre
          shown == Log[i].arg
      IN  /\ Log[i].post = d /\ ~Log[i].save
          /\ shown.watchmanChannels = Cardinality(Members(d.watchmanChannels))
          /\ shown.serversWithAllowlists = Cardinality(MapKeys(d.allowLists))
          /\ shown.serversWithGlobalRules = Cardinality(ActiveKeys(d.globalBlockRules))
          /\ shown.channelsWithRules = Cardinality(ActiveKeys(d.blockRules))
          /\ shown.totalBlockRules = TotalOver(d.blockRules, MapKeys(d.blockRules))
          /\ shown.totalGlobalRules =
               TotalOver(d.globalBlockRules, MapKeys(d.globalBlockRules))

\* C30: stats count only active rule sets.  Once the last partial of a
\* channel (guild) has been removed, the channel (guild) is not among the
\* channels with rules (guilds with global rules) that stats shows.
C30_StatsCountActiveOnly ==
  \A i \in LogIdx :
    Log[i].cmd = "stats" =>
      \A c \in MapKeys(Log[i].pre.blockRules) :
        MapGet(Log[i].pre.blockRules, c) = <<>> =>
          Log[i].arg.channelsWithRules < Len(Log[i].pre.blockRules)

\* C24: run to completion.  The handling of one message or command is
\* finished before the handling of the next begins: at most one handler has
\* started and not yet returned, the handlers suspended in a history fetch, a
\* delete request or a save included.
C24_RunToCompletion == Len(handlers) + Len(saves) <= 1

\* the handler of event ev passes the start filter and the allowlist check
Scanning(ev) ==
  /\ ~IsBot(msgs[ev].author)
  /\ msgs[ev].content # <<>>
  /\ GuildOf(msgs[ev].channel) # NoGuild
  /\ ~Exempt(GuildOf(msgs[ev].channel), msgs[ev].author)

\* C25 as stated: every message arriving in a watched channel, whoever its
\* author is, has the history window of the channel fetched.
C25_EveryArrivalRescans ==
  \A ev \in Events :
    (Watched(msgs[ev].channel) /\ ChannelRules(msgs[ev].channel) # {})
      => FetchesOf(ev) # {}
\* C25: watchman rescan on arrival.  Every message arriving in a watched
\* channel with channel rules, from an author who is not a bot and not
\* allowlisted and with its text available, has the window fetched for the
\* channel scan, whether or not the arriving message holds a link; the first
\* window message the scan must act on gets a delete request, and it is
\* deleted once the handler has finished unless that request failed.
C25_RescanOnArrival ==
  \A ev \in Events :
    ( /\ Watched(msgs[ev].channel) /\ ChannelRules(msgs[ev].channel) # {}
      /\ Scanning(ev) )
    => /\ \E q \in FetchesOf(ev) : q.scan = "channel"
       /\ \A f \in obs.fetched : \A k \in 1..6 :
            ( /\ f.ev = ev /\ k <= Len(f.live)
              /\ Actionable(f, f.live[k])
              /\ \A j \in 1..(k - 1) : ~Actionable(f, f.live[j]) )
            => \E r \in ReqsOf(ev) :
                 /\ r.scan = f.scan /\ r.msg = f.live[k]
                 /\ ( /\ Finished(ev)
                      /\ ~\E x \in obs.failed : x.ev = ev /\ x.n = r.n )
                    => msgs[r.msg].deleted
\* a message without link has arrived in the watched channel and its scan has
\* deleted an older message of the window, the third newest or older
C25_Witness ==
  \E d \in obs.deleted : \E f \in obs.fetched : \E k \in 3..6 :
    /\ d.ev \in Events /\ Finished(d.ev) /\ Scanning(d.ev)
    /\ ~HasLink(msgs[d.ev].content)
    /\ f.ev = d.ev /\ f.scan = d.scan /\ k <= Len(f.live) /\ f.live[k] = d.msg
    /\ d.msg \notin Events
    /\ msgs[d.msg].deleted

\* C26: watchman scope ordering.  For an event in a watched channel the
\* global rule set is scanned only if the channel scan found no window message
\* to act on: an event with a delete request of the channel scan has no global
\* scan; and a global scan that finds a window message to act on requests its
\* deletion, and the message is deleted unless a request of the event failed.
C26_ChannelScanBeforeGlobal ==
  \A ev \in Events :
    (Watched(msgs[ev].channel) /\ Scanning(ev)) =>
      /\ (\E r \in ReqsOf(ev) : r.scan = "channel")
           => ( /\ ~GlobalEvaluated(ev)
                /\ ~\E q \in FetchesOf(ev) : q.scan = "global" )
      /\ \A f \in obs.fetched : \A k \in 1..6 :
           ( /\ f.ev = ev /\ f.scan = "global" /\ k <= Len(f.live)
             /\ Actionable(f, f.live[k])
             /\ \A j \in 1..(k - 1) : ~Actionable(f, f.live[j]) )
           => \E r \in ReqsOf(ev) :
                /\ r.scan = "global" /\ r.msg = f.live[k]
                /\ (Finished(ev) /\ ~\E x \in obs.failed : x.ev = ev)
                     => msgs[r.msg].deleted

\* C27: bot messages are never deleted.  No delete request, of the normal
\* check or of a watchman scan, is for a message authored by a bot or for a
\* message without available text.
C27_NoRequestForBotMessage ==
  \A r \in obs.reqs :
    /\ ~IsBot(msgs[r.msg].author)
    /\ msgs[r.msg].content # <<>> /\ r.seen # <<>>
\* a watchman scan made with ManageMessages has gone over a window holding a
\* link of the bot with a blocked partial and has finished without a delete
\* request for it
C27_Witness ==
  \E f \in obs.fetched : \E k \in 1..Len(f.ids) :
    LET m == msgs[f.ids[k]]
    IN  /\ IsBot(m.author) /\ HasLink(m.content)
        /\ Blocked(m.content, ScannedRules(f))
        /\ f.perm /\ f.ev # f.ids[k] /\ Finished(f.ev)
        /\ ~m.deleted /\ ~\E r \in obs.reqs : r.msg = f.ids[k]

\* every partial of the rule sets of a store
StoredPartials(data) ==
  UNION {Members(data.blockRules[i].v) : i \in 1..Len(data.blockRules)}
    \cup UNION {Members(data.globalBlockRules[i].v) : i \in 1..Len(data.globalBlockRules)}

\* C28: lowercase invariant.  Every partial of a channel or global rule set
\* of the store is lowercase, after a load and after any commands; and after
\* block or block-global every text with "http" whose lowercased form contains
\* the lowercased option is matched by the addressed rule set, whatever the
\* letter case of the option and of the text.
C28_StoredLowercase ==
  /\ \A p \in StoredPartials(Store) : p = ToLowerCase(p)
  /\ \A i \in LogIdx :
       Log[i].cmd \in {"block", "block-global"} =>
         \A t \in Texts :
           (HasLink(t) /\ Includes(ToLowerCase(t), ToLowerCase(Log[i].arg)))
             => FirstMatch(ToLowerCase(t), AddressedSet(Log[i], Log[i].post), 1) # 0
\* "A" has been blocked for a channel, saved, and loaded again at a restart:
\* the rule set holds "a", which the text "HTTPAb" matches
C28_Witness ==
  /\ Len(Log) >= 1 /\ Log[1].cmd = "block" /\ Log[1].arg = <<"A">>
  /\ hist.restarts = 1 /\ phase = "running"
  /\ <<"a">> \in ChannelRules(Log[1].key)
  /\ <<"A">> \notin StoredPartials(Store)
  /\ FirstMatch(ToLowerCase(TxtLinkAB), MapGet(blockRules, Log[1].key), 1) # 0

\* the keys of the Map of a store that hold an empty Set
EmptyKeys(m) == MapKeys(m) \ ActiveKeys(m)

\* C29: rule-set entries are never pruned.  No command removes a key of
\* blockRules, globalBlockRules or allowLists; after unblock or unblock-global
\* has removed a partial the key is still there, with an empty Set when the
\* partial was the last one; and the store that loadData returns for the
\* snapshot of the store has the same keys, the empty entries included.
C29_EntriesNeverPruned ==
  /\ \A i \in LogIdx :
       /\ MapKeys(Log[i].pre.blockRules) \subseteq MapKeys(Log[i].post.blockRules)
       /\ MapKeys(Log[i].pre.globalBlockRules) \subseteq MapKeys(Log[i].post.globalBlockRules)
       /\ MapKeys(Log[i].pre.allowLists) \subseteq MapKeys(Log[i].post.allowLists)
       /\ (Log[i].cmd = "unblock" /\ Log[i].reply = "pending")
            => /\ MapHas(Log[i].post.blockRules, Log[i].key)
               /\ Members(MapGet(Log[i].post.blockRules, Log[i].key))
                    = Members(MapGet(Log[i].pre.blockRules, Log[i].key))
                        \ {ToLowerCase(Log[i].arg)}
       /\ (Log[i].cmd = "unblock-global" /\ Log[i].reply = "pending")
            => /\ MapHas(Log[i].post.globalBlockRules, Log[i].key)
               /\ Members(MapGet(Log[i].post.globalBlockRules, Log[i].key))
                    = Members(MapGet(Log[i].pre.globalBlockRules, Log[i].key))
                        \ {ToLowerCase(Log[i].arg)}
  /\ LET back == LoadData(SnapshotOf(Store))
     IN  /\ MapKeys(back.blockRules) = MapKeys(blockRules)
         /\ EmptyKeys(back.blockRules) = EmptyKeys(blockRules)
         /\ MapKeys(back.globalBlockRules) = MapKeys(globalBlockRules)
         /\ EmptyKeys(back.globalBlockRules) = EmptyKeys(globalBlockRules)
         /\ MapKeys(back.allowLists) = MapKeys(allowLists)
\* the only partial of a channel has been removed, the store saved, and the
\* bot restarted: the loaded store has the channel with an empty rule set
C29_Witness ==
  /\ Len(Log) >= 1 /\ Log[1].cmd = "unblock" /\ Log[1].reply = "pending"
  /\ Log[1].pre.blockRules = <<[k |-> Log[1].key, v |-> <<<<"a">>>>]>>
  /\ hist.restarts = 1 /\ phase = "running" /\ saves = <<>>
  /\ blockRules = <<[k |-> Log[1].key, v |-> <<>>]>>
  /\ disk = SnapshotOf(Store)

\* C31: backups are never overwritten.  The write that ends a backup goes to
\* a file name that no backup file has yet, and every backup file there is
\* stays as it is.
C31_BackupsNeverOverwritten ==
  [][ \A i \in 1..Len(saves) :
        ( /\ saves[i].cmd = "backup" /\ saves[i].stage = "writing"
          /\ saves' = RemoveAt(saves, i) )
        => /\ ~MapHas(backups, saves[i].at)
           /\ \A k \in MapKeys(backups) :
                MapHas(backups', k) /\ MapGet(backups', k) = MapGet(backups, k)
    ]_vars

\* C32: overlapping saves converge.  When two commands that change the store
\* and call autoSave have been handled by the running bot and both writes have
\* completed without failure, the data file holds the serialization of the
\* store, whether or not the writes overlapped and in whichever order they
\* completed.
C32_OverlappingSavesConverge ==
  ( /\ Len(Log) = 2 /\ Log[1].save /\ Log[2].save
    /\ Log[2].pre = Log[1].post /\ Store = Log[2].post
    /\ phase = "running" /\ hist.restarts = 0 /\ ~hist.early
    /\ saves = <<>> /\ hist.fails = 0 )
  => disk = SnapshotOf(Store)

\* C33: no mutation is lost to the startup load.  When block was handled while
\* the ready handler was waiting for loadData, then once the bot is running
\* the rule it added is in the rule set of the channel, and what loadData
\* returned is the load of a file from before the process started, not of the
\* snapshot the command saved.
C33_NoMutationLostAtStartup ==
  ( /\ Len(Log) = 1 /\ Log[1].cmd = "block" /\ hist.early
    /\ hist.restarts = 0 /\ phase = "running" )
  => /\ ToLowerCase(Log[1].arg) \in ChannelRules(Log[1].key)
     /\ hist.loaded \in {LoadData(d) : d \in InitDisks}

\* C34: at most one delete request per message per event.  Two delete
\* requests of the same event are for different messages.
C34_OneRequestPerMessage ==
  \A r1, r2 \in obs.reqs :
    (r1.ev = r2.ev /\ r1.msg = r2.msg) => r1.n = r2.n

\* C35: message handling leaves the rule state alone.  No step of the handling
\* of a message (its arrival, the answer or the failure of a fetch or of a
\* delete request) changes blockRules, globalBlockRules, allowLists or
\* watchmanChannels, starts or ends a write, or changes the data file or a
\* backup file.
C35_MessagesLeaveRulesAlone ==
  [][ (msgs' # msgs \/ handlers' # handlers \/ obs' # obs)
        => /\ Store' = Store
           /\ disk' = disk /\ saves' = saves /\ backups' = backups
           /\ phase' = phase
    ]_vars
\* one event has ended with a deletion and another with a failed delete
\* request, after a change of the permission; the store is the one the data
\* file holds and nothing is being written
C35_Witness ==
  /\ obs.deleted # {} /\ obs.failed # {} /\ obs.permChanges > 0
  /\ obs.posted = MaxMsgs /\ handlers = <<>>
  /\ \E d \in obs.deleted : \E x \in obs.failed :
       d.ev # x.ev /\ Watched(msgs[d.ev].channel)
  /\ blockRules # <<>> /\ allowLists # <<>>
  /\ disk = SnapshotOf(Store) /\ saves = <<>> /\ backups = <<>>

====
